---- MODULE Spec2Model ----
(***************************************************************************)
(* Model of mailmerge/__main__.py: main() reads a names file with the csv  *)
(* reader, and for every row with two fields builds a message and either   *)
(* prints it (--test) or delivers it over SMTP.                            *)
(*                                                                         *)
(* Strings are sequences of one-character strings.  The names file is a    *)
(* sequence of lines.  stdout is the sequence of things printed, calls is  *)
(* the sequence of calls made on smtplib.SMTP objects and on time.sleep.   *)
(***************************************************************************)
EXTENDS Integers, Sequences, FiniteSets

\* ------------------------------------------------------------------ bounds
\* Largest number of lines of a names file.
MaxLines == 3

\* ------------------------------------------------------------------ inputs
\* The lines a names file is made of: blank, one field, two fields, two
\* empty fields, three fields.
NamesLines ==
    { << >>,
      <<"x">>,
      <<"x", ",", "y">>,
      <<",">>,
      <<"x", ",", "y", ",", "z">> }

NamesFiles == UNION { [1..n -> NamesLines] : n \in 0..MaxLines }

\* Values of --sender: well formed, and a bare angle address.
Senders ==
    { <<"n", " ", "<", "e", ">">>,
      <<"<", "e", ">">> }

\* The message file: subject line {{ name }}, body {{ email }}{{ sender }}.
RawSubject == <<"name">>
RawBody == <<"email", "sender">>

\* ----------------------------------------------------------- pure helpers
\* Position of the first occurrence of c in s, 0 when there is none.
RECURSIVE IndexFrom(_, _, _)
IndexFrom(s, c, i) ==
    IF i > Len(s) THEN 0
    ELSE IF s[i] = c THEN i
    ELSE IndexFrom(s, c, i + 1)

IndexOf(s, c) == IndexFrom(s, c, 1)

\* s without its trailing blanks.
RECURSIVE RStrip(_)
RStrip(s) ==
    IF s # << >> /\ s[Len(s)] = " " THEN RStrip(SubSeq(s, 1, Len(s) - 1))
    ELSE s

\* email.utils.parseaddr on "name <email>", "<email>" and bare "email".
ParseAddr(s) ==
    LET lt == IndexOf(s, "<")
        gt == IndexOf(s, ">")
    IN  IF lt = 0 \/ gt < lt THEN << << >>, s >>
        ELSE << RStrip(SubSeq(s, 1, lt - 1)), SubSeq(s, lt + 1, gt - 1) >>

\* email.utils.formataddr: "name <email>", or the bare email without a name.
FormatAddr(pair) ==
    IF pair[1] # << >>
    THEN pair[1] \o <<" ", "<">> \o pair[2] \o <<">">>
    ELSE pair[2]

\* One line of the names file split at its commas.
RECURSIVE SplitComma(_)
SplitComma(line) ==
    LET c == IndexOf(line, ",")
    IN  IF c = 0 THEN << line >>
        ELSE << SubSeq(line, 1, c - 1) >>
             \o SplitComma(SubSeq(line, c + 1, Len(line)))

\* csv.reader: one row per line, the empty row for a blank line.
Reader(file) ==
    [i \in 1..Len(file) |->
        IF file[i] = << >> THEN << >> ELSE SplitComma(file[i])]

\* ','.join(line)
RECURSIVE Join(_)
Join(row) ==
    IF row = << >> THEN << >>
    ELSE IF Len(row) = 1 THEN row[1]
    ELSE row[1] \o <<",">> \o Join(Tail(row))

\* jinja2 Template.render: each placeholder replaced by its variable.
Render(template, kw) == [i \in 1..Len(template) |-> kw[template[i]]]


\* ------------------------------------------------------------------ state
VARIABLES
    args,        \* the parsed command line: test, tls, sender
    names,       \* the lines of the names file
    addresses,   \* list(reader(args.names))
    total,       \* len(addresses)
    kwargs,      \* the keyword arguments for render
    index,       \* enumerate index of the row being processed (0-based)
    pc,          \* position of main() in its loop body
    recipient,   \* formataddr((name, email)) of the current row
    message,     \* the message built for the current row
    server,      \* number of SMTP objects constructed so far
    stdout,      \* everything printed, in order
    calls,       \* calls on SMTP objects and on sleep, in order
    built        \* (row number, name, email) of every message built

vars == << args, names, addresses, total, kwargs, index, pc, recipient,
           message, server, stdout, calls, built >>

NoMessage == [From |-> << >>, To |-> << >>, Subject |-> << >>,
              Payload |-> << >>]

Out(kind, val) == [kind |-> kind, val |-> val]

\* A call on the SMTP object of the current row (or on sleep).
Call(op, ok, arg) ==
    [op |-> op, session |-> server, ok |-> ok, row |-> index + 1,
     arg |-> arg]

\* len(line) == 2
IsRecipientNonEmpty(line) ==
    Len(line) = 2 /\ line[1] # << >> /\ line[2] # << >>

IsRecipient(line) == Len(line) = 2

\* The numbers of the progress line: index + 1, total.
ProgressZeroBased(i, t, r) == [index |-> i, total |-> t, recipient |-> r]

Progress(i, t, r) == [index |-> i + 1, total |-> t, recipient |-> r]

\* if args.test
DryRunUnlessTls == args.test /\ ~args.tls

DryRun == args.test

\* What follows a successful SMTP(...): if args.tls, starttls.
AfterConnectNoUpgrade == "sendmail"

AfterConnect == IF args.tls THEN "starttls" ELSE "sendmail"

Init ==
    /\ args \in [test : BOOLEAN, tls : BOOLEAN, sender : Senders]
    /\ names \in NamesFiles
    /\ addresses = Reader(names)
    /\ total = Len(addresses)
    /\ kwargs = [sender_name  |-> ParseAddr(args.sender)[1],
                 sender_email |-> ParseAddr(args.sender)[2],
                 sender       |-> FormatAddr(ParseAddr(args.sender)),
                 name         |-> << >>,
                 email        |-> << >>,
                 recipient    |-> << >>]
    /\ index = 0
    /\ pc = "loop"
    /\ recipient = << >>
    /\ message = NoMessage
    /\ server = 0
    /\ stdout = IF args.tls THEN << Out("info", "TLS enabled.") >> ELSE << >>
    /\ calls = << >>
    /\ built = << >>

\* if not line: continue
BlankLine ==
    /\ pc = "loop"
    /\ index < total
    /\ addresses[index + 1] = << >>
    /\ index' = index + 1
    /\ UNCHANGED << args, names, addresses, total, kwargs, pc, recipient,
                    message, server, stdout, calls, built >>

\* else: print('Improperly formatted user ...'); continue
MalformedBreak ==
    /\ pc = "loop"
    /\ index < total
    /\ addresses[index + 1] # << >>
    /\ ~IsRecipient(addresses[index + 1])
    /\ stdout' = Append(stdout, Out("improper", Join(addresses[index + 1])))
    /\ pc' = "done"
    /\ UNCHANGED << args, names, addresses, total, kwargs, index, recipient,
                    message, server, calls, built >>

Malformed ==
    /\ pc = "loop"
    /\ index < total
    /\ addresses[index + 1] # << >>
    /\ ~IsRecipient(addresses[index + 1])
    /\ stdout' = Append(stdout, Out("improper", Join(addresses[index + 1])))
    /\ index' = index + 1
    /\ UNCHANGED << args, names, addresses, total, kwargs, pc, recipient,
                    message, server, calls, built >>

\* elif len(line) == 2: ... message = message.as_string()
Build ==
    /\ pc = "loop"
    /\ index < total
    /\ addresses[index + 1] # << >>
    /\ IsRecipient(addresses[index + 1])
    /\ LET name  == addresses[index + 1][1]
           email == addresses[index + 1][2]
           rcpt  == FormatAddr(<< name, email >>)
           kw    == [kwargs EXCEPT !.name = name, !.email = email,
                                   !.recipient = rcpt]
       IN  /\ kwargs' = kw
           /\ recipient' = rcpt
           /\ stdout' = Append(stdout,
                               Out("progress", Progress(index, total, rcpt)))
           /\ message' = [From    |-> args.sender,
                          To      |-> rcpt,
                          Subject |-> Render(RawSubject, kw),
                          Payload |-> Render(RawBody, kw)]
           /\ built' = Append(built, [row |-> index + 1, name |-> name,
                                      email |-> email])
    /\ pc' = "built"
    /\ UNCHANGED << args, names, addresses, total, index, server, calls >>

\* if args.test: print('Testing'); print(message)
TestPrint ==
    /\ pc = "built"
    /\ DryRun
    /\ stdout' = stdout \o << Out("testing", "Testing"),
                              Out("message", message) >>
    /\ index' = index + 1
    /\ pc' = "loop"
    /\ UNCHANGED << args, names, addresses, total, kwargs, recipient,
                    message, server, calls, built >>

\* except Exception as e: print(e); the loop goes on with the next row.
ExceptRaise(op) ==
    /\ stdout' = Append(stdout, Out("error", op))
    /\ pc' = "done"
    /\ UNCHANGED index

Except(op) ==
    /\ stdout' = Append(stdout, Out("error", op))
    /\ index' = index + 1
    /\ pc' = "loop"

\* server = SMTP(host=args.hostname, port=args.port)
ConnectOnce ==
    /\ pc = "built"
    /\ ~DryRun
    /\ \E ok \in BOOLEAN :
        IF server > 0
        THEN /\ pc' = AfterConnect
             /\ UNCHANGED << server, calls, stdout, index >>
        ELSE /\ server' = server + 1
             /\ calls' = Append(calls, [Call("connect", ok, << >>)
                                           EXCEPT !.session = server + 1])
             /\ IF ok
                THEN /\ pc' = AfterConnect
                     /\ UNCHANGED << stdout, index >>
                ELSE Except("connect")
    /\ UNCHANGED << args, names, addresses, total, kwargs, recipient,
                    message, built >>

Connect ==
    /\ pc = "built"
    /\ ~DryRun
    /\ \E ok \in BOOLEAN :
        /\ server' = server + 1
        /\ calls' = Append(calls, [Call("connect", ok, << >>)
                                      EXCEPT !.session = server + 1])
        /\ IF ok
           THEN /\ pc' = AfterConnect
                /\ UNCHANGED << stdout, index >>
           ELSE Except("connect")
    /\ UNCHANGED << args, names, addresses, total, kwargs, recipient,
                    message, built >>

\* server.starttls()
StartTLS ==
    /\ pc = "starttls"
    /\ \E ok \in BOOLEAN :
        /\ calls' = Append(calls, Call("starttls", ok, << >>))
        /\ IF ok
           THEN /\ pc' = "login"
                /\ UNCHANGED << stdout, index >>
           ELSE Except("starttls")
    /\ UNCHANGED << args, names, addresses, total, kwargs, recipient,
                    message, server, built >>

\* server.login(args.username, args.password)
LoginIgnoreFailure ==
    /\ pc = "login"
    /\ \E ok \in BOOLEAN :
        /\ calls' = Append(calls, Call("login", ok, << >>))
        /\ pc' = "sendmail"
        /\ UNCHANGED << stdout, index >>
    /\ UNCHANGED << args, names, addresses, total, kwargs, recipient,
                    message, server, built >>

Login ==
    /\ pc = "login"
    /\ \E ok \in BOOLEAN :
        /\ calls' = Append(calls, Call("login", ok, << >>))
        /\ IF ok
           THEN /\ pc' = "sendmail"
                /\ UNCHANGED << stdout, index >>
           ELSE Except("login")
    /\ UNCHANGED << args, names, addresses, total, kwargs, recipient,
                    message, server, built >>

\* server.sendmail(sender_email, recipient, message); print('OK')
Sendmail ==
    /\ pc = "sendmail"
    /\ \E ok \in BOOLEAN :
        /\ calls' = Append(calls,
                Call("sendmail", ok,
                     [from_addr |-> kwargs.sender_email,
                      to_addrs  |-> recipient,
                      msg       |-> message]))
        /\ IF ok
           THEN /\ stdout' = Append(stdout, Out("ok", "OK"))
                /\ pc' = "sleep"
                /\ UNCHANGED index
           ELSE Except("sendmail")
    /\ UNCHANGED << args, names, addresses, total, kwargs, recipient,
                    message, server, built >>

\* sleep(args.interval)
Sleep ==
    /\ pc = "sleep"
    /\ calls' = Append(calls, Call("sleep", TRUE, << >>))
    /\ index' = index + 1
    /\ pc' = "loop"
    /\ UNCHANGED << args, names, addresses, total, kwargs, recipient,
                    message, server, stdout, built >>

\* The for loop is exhausted and main() returns.
Finish ==
    /\ pc = "loop"
    /\ index = total
    /\ pc' = "done"
    /\ UNCHANGED << args, names, addresses, total, kwargs, index, recipient,
                    message, server, stdout, calls, built >>

Next ==
    \/ BlankLine
    \/ Malformed
    \/ Build
    \/ TestPrint
    \/ Connect
    \/ StartTLS
    \/ Login
    \/ Sendmail
    \/ Sleep
    \/ Finish

Spec == Init /\ [][Next]_vars


\* ---------------------------------------------------- vocabulary of claims
NumCommas(line) == Cardinality({ i \in DOMAIN line : line[i] = "," })

\* A line with exactly two comma-separated fields.
TwoFields(line) == NumCommas(line) = 1

FieldOne(line) == SubSeq(line, 1, IndexOf(line, ",") - 1)

FieldTwo(line) == SubSeq(line, IndexOf(line, ",") + 1, Len(line))

\* Row numbers of the valid lines, and of the malformed (non-blank) ones.
ValidSet == { i \in DOMAIN names : TwoFields(names[i]) }

MalformedSet == { i \in DOMAIN names : names[i] # << >> /\ ~TwoFields(names[i]) }

\* Number of elements of S up to row i.
RankIn(S, i) == Cardinality({ j \in S : j <= i })

\* Number of rows whose processing has begun.
Processed == IF pc \in {"loop", "done"} THEN index ELSE index + 1

IsImproper(o) == o.kind = "improper"
IsProgress(o) == o.kind = "progress"
IsMessage(o) == o.kind = "message"

Diagnostics == SelectSeq(stdout, IsImproper)
ProgressLines == SelectSeq(stdout, IsProgress)
Printed == SelectSeq(stdout, IsMessage)

SetupOps == {"connect", "starttls", "login"}

CallsOf(op) == { i \in DOMAIN calls : calls[i].op = op }

Tries(r) == { i \in CallsOf("connect") : calls[i].row = r }

Sends(r) == { i \in CallsOf("sendmail") : calls[i].row = r }

SetupFailed(r) ==
    \E i \in DOMAIN calls :
        calls[i].row = r /\ calls[i].op \in SetupOps /\ ~calls[i].ok

FailedSetupCalls ==
    { i \in DOMAIN calls : calls[i].op \in SetupOps /\ ~calls[i].ok }

\* ------------------------------------------------------------------ claims

\* C1: in a live run every valid recipient (2-field line) gets exactly one
\* delivery attempt, in file order; a failed one is never retried, the ones
\* after it are still attempted, and no failure ends the run early.  The
\* attempt reaches sendmail unless setting up its session failed.
C1_EveryRecipientAttemptedOnce ==
    ~args.test =>
        /\ \A i \in 2..Len(calls) : calls[i - 1].row <= calls[i].row
        /\ \A r \in DOMAIN names :
            LET tries == Tries(r)
                sends == Sends(r)
            IN  /\ Cardinality(tries) <= 1
                /\ Cardinality(sends) <= 1
                /\ ~TwoFields(names[r]) => tries = {} /\ sends = {}
                /\ (pc = "done" /\ TwoFields(names[r])) =>
                    /\ Cardinality(tries) = 1
                    /\ Cardinality(sends) = IF SetupFailed(r) THEN 0 ELSE 1
                    /\ \A i \in sends :
                        calls[i].arg.to_addrs =
                            FormatAddr(<< FieldOne(names[r]),
                                          FieldTwo(names[r]) >>)

C1_Witness ==
    /\ ~args.test
    /\ pc = "done"
    /\ \E i, j \in CallsOf("sendmail") :
        i < j /\ ~calls[i].ok /\ calls[i].row < calls[j].row

\* C2 as stated: a live run opens at most one SMTP connection and every
\* sendmail goes over that one session.
C2_ConnectOnce ==
    /\ Cardinality(CallsOf("connect")) <= 1
    /\ \A i \in CallsOf("sendmail") : calls[i].session = 1

\* C2 amended: a live run opens one SMTP connection per valid recipient,
\* before that recipient's send; each session carries the send of its own
\* recipient only, so the number of connections equals the number of valid
\* recipients processed.
C2_ConnectPerRecipient ==
    ~args.test =>
        LET connects == CallsOf("connect")
            sends == CallsOf("sendmail")
        IN  /\ server = Cardinality(connects)
            /\ server = Len(built) - (IF pc = "built" THEN 1 ELSE 0)
            /\ pc = "done" => server = Cardinality(ValidSet)
            /\ \A i \in sends :
                /\ \E c \in connects :
                    /\ c < i
                    /\ calls[c].session = calls[i].session
                    /\ calls[c].row = calls[i].row
                /\ \A j \in sends :
                    calls[j].session = calls[i].session => j = i

C2_Witness ==
    /\ pc = "done"
    /\ server >= 2
    /\ Cardinality(CallsOf("sendmail")) >= 2

\* C3 as stated: once connecting, upgrading to TLS or logging in has
\* failed, nothing more is done on the network.
C3_SetupFailureFatal ==
    \A i \in FailedSetupCalls : \A j \in DOMAIN calls : j <= i

\* C3 amended: a failure to connect, upgrade or log in is caught for the
\* recipient it happened on: it is reported, nothing more is done on that
\* session (no sendmail), and the run goes on to connect for every valid
\* recipient after it.
C3_SetupFailureSkipsRecipient ==
    \A i \in FailedSetupCalls :
        /\ \A j \in DOMAIN calls :
            j > i => calls[j].session # calls[i].session
        /\ Sends(calls[i].row) = {}
        /\ \E k \in DOMAIN stdout :
            stdout[k].kind = "error" /\ stdout[k].val = calls[i].op
        /\ pc = "done" =>
            \A r \in ValidSet : r > calls[i].row => Tries(r) # {}

C3_Witness ==
    /\ pc = "done"
    /\ \E i \in FailedSetupCalls : \E j \in CallsOf("sendmail") :
        /\ calls[i].op = "login"
        /\ i < j
        /\ calls[j].ok

\* C4: in a dry run exactly one message is printed per valid recipient, in
\* file order, and nothing is done on the network: no connection, no TLS
\* upgrade, no login, no send, no pause, with --tls too.
C4_DryRunPrintsOnly ==
    args.test =>
        LET valid == ValidSet
            printed == Printed
        IN  /\ calls = << >>
            /\ server = 0
            /\ Len(printed) = RankIn(valid, Processed)
                                - (IF pc = "built" THEN 1 ELSE 0)
            /\ \A k \in DOMAIN printed :
                \E r \in valid :
                    /\ RankIn(valid, r) = k
                    /\ printed[k].val.To =
                           FormatAddr(<< FieldOne(names[r]),
                                         FieldTwo(names[r]) >>)
                    /\ printed[k].val.Subject = << FieldOne(names[r]) >>
            /\ pc = "done" => Len(printed) = Cardinality(valid)

C4_Witness ==
    /\ args.test
    /\ args.tls
    /\ pc = "done"
    /\ Len(Printed) >= 2
    /\ Printed[1].val.To # Printed[2].val.To

\* C5: in a live run there is a pause between any two transmission
\* attempts, whether the earlier one succeeded or failed.
C5_PauseAfterEveryAttempt ==
    \A i, j \in CallsOf("sendmail") :
        i < j => \E k \in CallsOf("sleep") : i < k /\ k < j

C7_ProgressOverValid ==
    \A k \in DOMAIN ProgressLines :
        /\ ProgressLines[k].val.index = k
        /\ ProgressLines[k].val.total = Cardinality(ValidSet)

\* C7 amended: the k-th processed recipient is reported as r / T, r the
\* one-based row number of its line among all rows of the file and T the
\* number of all rows, blank and malformed ones included.
C7_ProgressOverRows ==
    LET valid == ValidSet
        lines == ProgressLines
    IN  \A k \in DOMAIN lines :
            /\ lines[k].val.total = Len(names)
            /\ lines[k].val.index \in valid
            /\ RankIn(valid, lines[k].val.index) = k
            /\ lines[k].val.recipient =
                   FormatAddr(<< FieldOne(names[lines[k].val.index]),
                                 FieldTwo(names[lines[k].val.index]) >>)

C7_Witness ==
    /\ pc = "done"
    /\ \E k \in DOMAIN ProgressLines :
        /\ ProgressLines[k].val.index > k
        /\ ProgressLines[k].val.total > Cardinality(ValidSet)

\* C8: the From header of every built message is the re-normalized sender,
\* formataddr(parseaddr(--sender)), the value of the 'sender' variable.
C8_FromIsNormalizedSender ==
    message # NoMessage =>
        /\ message.From = FormatAddr(ParseAddr(args.sender))
        /\ message.From = kwargs.sender

\* C9 as stated: no message is built for a 2-field line whose name or email
\* field is empty.
C9_NonEmptyFields ==
    \A k \in DOMAIN built :
        built[k].name # << >> /\ built[k].email # << >>

\* C9 amended: a recipient is constructed from every line with exactly two
\* fields, empty or not: a 2-field line with an empty name or email is not
\* rejected, gets no diagnostic, and a message is built for it.
C9_TwoFieldsSuffice ==
    /\ \A r \in ValidSet :
        (r <= Processed
            /\ (FieldOne(names[r]) = << >> \/ FieldTwo(names[r]) = << >>))
        => \E k \in DOMAIN built :
            /\ built[k].row = r
            /\ built[k].name = FieldOne(names[r])
            /\ built[k].email = FieldTwo(names[r])
    /\ LET diags == Diagnostics
       IN  \A k \in DOMAIN diags : ~TwoFields(diags[k].val)

C9_Witness ==
    /\ pc = "done"
    /\ \E k \in DOMAIN built : built[k].name = << >>
    /\ \E k \in DOMAIN built : built[k].email = << >>

\* C10: with --tls, on every session starttls succeeds before login and
\* login succeeds before sendmail; without --tls there is no starttls and
\* no login and sendmail directly follows the connect.
C10_UpgradeLoginSend ==
    /\ \A i \in CallsOf("sendmail") :
        IF args.tls
        THEN /\ i >= 4
             /\ calls[i - 3].op = "connect" /\ calls[i - 3].ok
             /\ calls[i - 2].op = "starttls" /\ calls[i - 2].ok
             /\ calls[i - 1].op = "login" /\ calls[i - 1].ok
             /\ \A d \in 1..3 : calls[i - d].session = calls[i].session
        ELSE /\ i >= 2
             /\ calls[i - 1].op = "connect" /\ calls[i - 1].ok
             /\ calls[i - 1].session = calls[i].session
    /\ \A i \in CallsOf("login") :
        /\ i >= 2
        /\ calls[i - 1].op = "starttls" /\ calls[i - 1].ok
        /\ calls[i - 1].session = calls[i].session
    /\ ~args.tls => CallsOf("starttls") = {} /\ CallsOf("login") = {}

C10_Witness ==
    /\ args.tls
    /\ ~args.test
    /\ pc = "done"
    /\ \E i, j \in CallsOf("sendmail") : i < j /\ calls[i].ok /\ calls[j].ok

====
